---- MODULE Spec2Model ----
(***************************************************************************)
(* Andromeda kernel (andromeda_kernel.py): the Memory store, the default   *)
(* pipeline AndromedaKernel.launch and the command loop of __main__.       *)
(*                                                                         *)
(* A Python str is a sequence of one-character strings.  A score is kept   *)
(* in hundredths (0.91 is 91).  uuid4 and datetime.now are inputs of the   *)
(* environment, as is the outcome of opening and writing a file.           *)
(***************************************************************************)
EXTENDS Integers, Sequences, FiniteSets, TLC

VARIABLES
  records,   \* Memory.records, a list of dicts
  files,     \* the working directory: file name -> what was written
  state,     \* "Idle" (in input()), "Stopped" (after break), "Crashed" (uncaught exception)
  raised,    \* the exception the last handler raised, "none" if it returned
  lastCmd,   \* the line the last iteration read
  op,        \* the branch of the if/elif chain the last iteration took
  out,       \* what the last iteration's handler rendered on the console
  query,     \* the argument the last iteration gave Memory.recall, empty if it made no such call
  now,       \* the clock datetime.now() reads
  serial     \* how many uuid4 values were drawn

vars == <<records, files, state, raised, lastCmd, op, out, query, now, serial>>

\* ------------------------------------------------------------------ bounds

\* the longest record list the command loop is followed to
MaxRecords == 6
\* the longest record list the Memory class alone is followed to
MaxAnchors == 3
\* clock ticks that share one calendar date
TicksPerDay == 2

\* ------------------------------------------------------- program constants

\* launch: score >= 0.9, in hundredths
Threshold == 90
\* map_flows: records[-5:]
MapWindow == 5
\* export_docs: record['id'][:8]
PrefixLen == 8

\* ------------------------------------------------------------ str methods

UpperChars == <<"A","B","C","D","E","F","G","H","I","J","K","L","M",
                "N","O","P","Q","R","S","T","U","V","W","X","Y","Z">>
LowerChars == <<"a","b","c","d","e","f","g","h","i","j","k","l","m",
                "n","o","p","q","r","s","t","u","v","w","x","y","z">>
Digits == <<"0","1","2","3","4","5","6","7","8","9">>
Whitespace == {" ", "\t"}

LowerChar(c) ==
  IF \E i \in 1..Len(UpperChars) : UpperChars[i] = c
  THEN LowerChars[CHOOSE i \in 1..Len(UpperChars) : UpperChars[i] = c]
  ELSE c

\* str.lower()
StrLower(s) == [i \in 1..Len(s) |-> LowerChar(s[i])]

\* str.startswith(p)
StartsWith(s, p) == Len(s) >= Len(p) /\ SubSeq(s, 1, Len(p)) = p

\* c in s, for a one-character c
HasChar(s, c) == \E i \in 1..Len(s) : s[i] = c

\* q in s: q occurs in s as a contiguous run
IsSubstring(q, s) ==
  \E i \in 0..(Len(s) - Len(q)) : SubSeq(s, i + 1, i + Len(q)) = q

\* s[:n]
Prefix(s, n) == SubSeq(s, 1, IF Len(s) < n THEN Len(s) ELSE n)

\* s[-n:]
Suffix(s, n) == SubSeq(s, (IF Len(s) < n THEN 0 ELSE Len(s) - n) + 1, Len(s))

FirstIndex(s, c) == CHOOSE i \in 1..Len(s) : s[i] = c /\ \A j \in 1..(i - 1) : s[j] # c

\* str.split(sep): every separator cuts, empty pieces are kept
RECURSIVE Split(_, _)
Split(s, sep) ==
  IF ~HasChar(s, sep) THEN <<s>>
  ELSE LET i == FirstIndex(s, sep)
       IN  <<SubSeq(s, 1, i - 1)>> \o Split(SubSeq(s, i + 1, Len(s)), sep)

\* str.split(sep, 1): only the first separator cuts
SplitOnce(s, sep) ==
  IF ~HasChar(s, sep) THEN <<s>>
  ELSE LET i == FirstIndex(s, sep)
       IN  <<SubSeq(s, 1, i - 1), SubSeq(s, i + 1, Len(s))>>

RECURSIVE LStrip(_)
LStrip(s) == IF s # <<>> /\ s[1] \in Whitespace THEN LStrip(Tail(s)) ELSE s

RECURSIVE RStrip(_)
RStrip(s) ==
  IF s # <<>> /\ s[Len(s)] \in Whitespace THEN RStrip(SubSeq(s, 1, Len(s) - 1)) ELSE s

\* str.strip()
Strip(s) == RStrip(LStrip(s))

\* seq[-1]
Last(seq) == seq[Len(seq)]

\* ------------------------------------------------------------ the stubs

\* llm_understand: the same answer for every prompt
LlmUnderstand(prompt) ==
  [intent |-> <<"b","u","i","l","d"," ","e","d","u","c","a","t","i","o","n","a","l"," ","c","h","a","t","b","o","t">>,
   goal_class |-> "tutoring", urgency |-> "medium", tone |-> "logical"]

\* repr of a float given in hundredths, 0 <= h < 1000: what str() and json write
FloatRepr(h) ==
  <<Digits[(h \div 100) + 1], ".", Digits[((h \div 10) % 10) + 1]>>
  \o (IF h % 10 = 0 THEN <<>> ELSE <<Digits[(h % 10) + 1]>>)

\* llm_match: the candidates dict, in the order it is written
Candidates == << <<"flow.study", 91>>, <<"quiz.kernel", 83>>, <<"feedback.kernel", 76>> >>

\* one item put into a list already sorted by descending score, behind its equals
RECURSIVE InsertDesc(_, _)
InsertDesc(x, sorted) ==
  IF sorted = <<>> THEN <<x>>
  ELSE IF x[2] > Head(sorted)[2] THEN <<x>> \o sorted
  ELSE <<Head(sorted)>> \o InsertDesc(x, Tail(sorted))

RECURSIVE SortDescFrom(_, _)
SortDescFrom(items, sorted) ==
  IF items = <<>> THEN sorted
  ELSE SortDescFrom(Tail(items), InsertDesc(Head(items), sorted))

\* the mistaken ranking: ascending order
SortedAsc(items) ==
  LET d == SortDescFrom(items, <<>>) IN [i \in 1..Len(d) |-> d[Len(d) + 1 - i]]

\* sorted(items, key=lambda x: x[1], reverse=True), which is stable
SortedDesc(items) == SortDescFrom(items, <<>>)

\* llm_match
LlmMatch(goal_class) ==
  LET sorted_candidates == SortedDesc(Candidates)
      primary == sorted_candidates[1]
      backup == sorted_candidates[2]
  IN  [primary_module |-> primary[1],
       backup_module |-> backup[1],
       score |-> primary[2],
       justification |-> <<"Matched ", primary[1], " for goal_class '", goal_class,
                           "' with confidence ">> \o FloatRepr(primary[2])]

\* ------------------------------------------------- uuid, clock, json, files

\* the first group of a uuid4 string, 8 hex digits: two values that differ in the
\* last digit only
Heads == { <<"a","a","a","a","a","a","a","a">>, <<"a","a","a","a","a","a","a","b">> }

\* str(uuid.uuid4()): an arbitrary first group; the characters after it are told
\* apart by the serial number of the draw, so that no two draws give the same string
Uuid4(head, n) == head \o <<"-", Digits[n + 1]>>

\* datetime.isoformat(): the date, then T, then the time of day
Isoformat(t) == <<Digits[(t \div TicksPerDay) + 1], "T", Digits[(t % TicksPerDay) + 1]>>

\* what json writes for the characters of a str: quote and backslash are escaped
RECURSIVE JsonEscape(_)
JsonEscape(s) ==
  IF s = <<>> THEN <<>>
  ELSE (IF Head(s) \in {"\"", "\\"} THEN <<"\\", Head(s)>> ELSE <<Head(s)>>)
       \o JsonEscape(Tail(s))

JsonString(s) == <<"\"">> \o JsonEscape(s) \o <<"\"">>

\* json.dump(record, f, indent=2): the members in the dict's order
JsonDump(r) ==
  << <<"id", JsonString(r.id)>>,
     <<"timestamp", JsonString(r.timestamp)>>,
     <<"goal", JsonString(r.goal)>>,
     <<"module", JsonString(<<r.module>>)>>,
     <<"score", FloatRepr(r.score)>>,
     <<"justification", JsonString(r.justification)>> >>

\* the name export_docs gives the file of a record
FileName(r) == <<"andromeda_log_">> \o Prefix(r.id, PrefixLen) \o <<".json">>

\* open(fn, 'w') and json.dump can succeed, open can fail (nothing changes), or
\* the write can fail after open truncated the file
IoOutcomes == {"ok", "open_fail", "write_fail"}

WriteFile(fs, fn, content) ==
  [n \in (DOMAIN fs) \cup {fn} |-> IF n = fn THEN content ELSE fs[n]]

\* export_docs: the directory it leaves
ExportDocs(fs, r, io) ==
  CASE io = "ok" -> WriteFile(fs, FileName(r), JsonDump(r))
    [] io = "open_fail" -> fs
    [] io = "write_fail" -> WriteFile(fs, FileName(r), <<>>)

\* ------------------------------------------------------------------ Memory

NewRecord(goal, module, score, justification, head) ==
  [id |-> Uuid4(head, serial),
   timestamp |-> Isoformat(now),
   goal |-> goal, module |-> module,
   score |-> score, justification |-> justification]

\* the mistaken anchor: the record goes to the front of the list
AnchorAtFront(goal, module, score, justification, head, io) ==
  LET r == NewRecord(goal, module, score, justification, head)
  IN  /\ records' = <<r>> \o records
      /\ files' = ExportDocs(files, r, io)
      /\ now' = now + 1
      /\ serial' = serial + 1

\* Memory.anchor: the record is appended, then exported
Anchor(goal, module, score, justification, head, io) ==
  LET r == NewRecord(goal, module, score, justification, head)
  IN  /\ records' = Append(records, r)
      /\ files' = ExportDocs(files, r, io)
      /\ now' = now + 1
      /\ serial' = serial + 1

\* the mistaken recall: only the goal is lowered
RecallCaseSensitive(recs, q) ==
  LET Hit(r) == IsSubstring(q, StrLower(r.goal)) IN SelectSeq(recs, Hit)

\* Memory.recall: matches = [r for r in self.records if query.lower() in r['goal'].lower()]
RecallMatches(recs, q) ==
  LET Hit(r) == IsSubstring(StrLower(q), StrLower(r.goal)) IN SelectSeq(recs, Hit)

MapRow(r) == <<Split(r.timestamp, "T")[1], r.module>>

\* the mistaken map: the first records instead of the last
MapFlowsFirst(recs) ==
  LET shown == Prefix(recs, MapWindow) IN [i \in 1..Len(shown) |-> MapRow(shown[i])]

\* map_flows: one row for each of records[-5:]
MapFlows(recs) ==
  LET shown == Suffix(recs, MapWindow) IN [i \in 1..Len(shown) |-> MapRow(shown[i])]

\* ------------------------------------------------------------ the command loop

\* the input lines the loop is driven with
Lines ==
  { <<"e","x","i","t">>,
    <<"E","X","I","T">>,
    <<"E","x","i","t">>,
    <<"e","x","i","t"," ">>,
    <<"r","e","c","a","l","l"," ","b","u","i","l","d">>,
    <<"R","E","C","A","L","L"," ","C","h","a","t">>,
    <<"r","e","c","a","l","l"," ","q","u","i","z">>,
    <<"r","e","c","a","l","l"," ">>,
    <<"r","e","c","a","l","l">>,
    <<"m","a","p">>,
    <<"M","A","P">>,
    <<"c","h","a","o","s">>,
    <<"C","h","a","o","s">>,
    <<"p","l","u","g","i","n">>,
    <<"d","e","v"," ","s","t","u","d","y","m","o","d">>,
    <<"d","e","v"," ","a"," ","|"," ","b">>,
    <<"d","e","v"," ","a"," ","|"," ","b"," ","|"," ","c">>,
    <<"D","E","V"," ","x","|","y">>,
    <<"d","e","v">>,
    <<"a"," ","|"," ","b">>,
    <<"s","t","u","d","y">>,
    <<>> }

CmdExit == <<"e","x","i","t">>
CmdRecall == <<"r","e","c","a","l","l"," ">>
CmdMap == <<"m","a","p">>
CmdChaos == <<"c","h","a","o","s">>
CmdPlugin == <<"p","l","u","g","i","n">>
CmdDev == <<"d","e","v">>

\* the mistaken chain: a line that starts with dev goes to the dev branch with or
\* without a separator
DispatchAnyDev(cmd) ==
  LET l == StrLower(cmd)
  IN  IF l = CmdExit THEN "exit"
      ELSE IF StartsWith(l, CmdRecall) THEN "recall"
      ELSE IF l = CmdMap THEN "map"
      ELSE IF l = CmdChaos THEN "chaos"
      ELSE IF l = CmdPlugin THEN "plugin"
      ELSE IF StartsWith(l, CmdDev) THEN "dev"
      ELSE "launch"

\* the if/elif chain of the loop: the branch a line takes, first match wins
Dispatch(cmd) ==
  LET l == StrLower(cmd)
  IN  IF l = CmdExit THEN "exit"
      ELSE IF StartsWith(l, CmdRecall) THEN "recall"
      ELSE IF l = CmdMap THEN "map"
      ELSE IF l = CmdChaos THEN "chaos"
      ELSE IF l = CmdPlugin THEN "plugin"
      ELSE IF StartsWith(l, CmdDev) /\ HasChar(cmd, "|") THEN "dev"
      ELSE "launch"

\* chaos_kernel: random.choice of one of four events
ChaosEvents ==
  {"Recursive goal loop", "Token saturation", "quiz.kernel drift", "reflection overload"}

Init ==
  /\ records = <<>>
  /\ files = <<>>
  /\ state = "Idle"
  /\ raised = "none"
  /\ lastCmd = <<>>
  /\ op = "none"
  /\ out = <<>>
  /\ query = <<>>
  /\ now = 0
  /\ serial = 0

\* if cmd.lower() == 'exit': break
Exit ==
  \E cmd \in Lines :
    /\ state = "Idle"
    /\ Dispatch(cmd) = "exit"
    /\ state' = "Stopped"
    /\ lastCmd' = cmd
    /\ op' = "exit"
    /\ out' = <<>>
    /\ query' = <<>>
    /\ UNCHANGED <<records, files, raised, now, serial>>

\* andromeda.recall(cmd.split(' ', 1)[-1])
Recall ==
  \E cmd \in Lines :
    /\ state = "Idle"
    /\ Dispatch(cmd) = "recall"
    /\ lastCmd' = cmd
    /\ op' = "recall"
    /\ query' = Last(SplitOnce(cmd, " "))
    /\ out' = RecallMatches(records, query')
    /\ UNCHANGED <<records, files, state, raised, now, serial>>

\* andromeda.map()
Map ==
  \E cmd \in Lines :
    /\ state = "Idle"
    /\ Dispatch(cmd) = "map"
    /\ lastCmd' = cmd
    /\ op' = "map"
    /\ out' = MapFlows(records)
    /\ query' = <<>>
    /\ UNCHANGED <<records, files, state, raised, now, serial>>

\* andromeda.chaos()
Chaos ==
  \E cmd \in Lines, event \in ChaosEvents :
    /\ state = "Idle"
    /\ Dispatch(cmd) = "chaos"
    /\ lastCmd' = cmd
    /\ op' = "chaos"
    /\ out' = <<event>>
    /\ query' = <<>>
    /\ UNCHANGED <<records, files, state, raised, now, serial>>

\* andromeda.plugin()
Plugin ==
  \E cmd \in Lines :
    /\ state = "Idle"
    /\ Dispatch(cmd) = "plugin"
    /\ lastCmd' = cmd
    /\ op' = "plugin"
    /\ out' = <<"focus_timer">>
    /\ query' = <<>>
    /\ UNCHANGED <<records, files, state, raised, now, serial>>

\* mod, patch = map(str.strip, cmd.split('|')); andromeda.dev(mod.split(' ')[-1], patch)
\* The unpacking raises ValueError unless the split gives exactly two pieces.
Dev ==
  \E cmd \in Lines :
    /\ state = "Idle"
    /\ Dispatch(cmd) = "dev"
    /\ lastCmd' = cmd
    /\ op' = "dev"
    /\ LET pieces == Split(cmd, "|")
       IN  IF Len(pieces) = 2
           THEN /\ out' = <<Last(Split(Strip(pieces[1]), " ")), Strip(pieces[2])>>
                /\ UNCHANGED <<state, raised>>
           ELSE /\ out' = <<>>
                /\ state' = "Crashed"
                /\ raised' = "ValueError"
    /\ query' = <<>>
    /\ UNCHANGED <<records, files, now, serial>>

\* andromeda.launch(cmd): understand, match, then anchor the primary module when
\* score >= 0.9 and the backup module otherwise.  An OSError of export_docs is
\* caught nowhere and ends the process.
Launch ==
  \E cmd \in Lines, head \in Heads, io \in IoOutcomes :
    /\ state = "Idle"
    /\ Dispatch(cmd) = "launch"
    /\ Len(records) < MaxRecords
    /\ lastCmd' = cmd
    /\ op' = "launch"
    /\ out' = <<>>
    /\ LET parsed == LlmUnderstand(cmd)
           goal == parsed.intent
           match == LlmMatch(parsed.goal_class)
           score == match.score
       IN  IF score >= Threshold
           THEN Anchor(goal, match.primary_module, score, match.justification, head, io)
           ELSE Anchor(goal, match.backup_module, score, match.justification, head, io)
    /\ IF io = "ok"
       THEN UNCHANGED <<state, raised>>
       ELSE state' = "Crashed" /\ raised' = "OSError"
    /\ query' = <<>>

Next == Exit \/ Recall \/ Map \/ Chaos \/ Plugin \/ Dev \/ Launch

Spec == Init /\ [][Next]_vars

\* ------------------------------------------------ the Memory class on its own

\* goals with the module and score they are anchored with
MemInputs ==
  { <<<<"S","t","u","d","y">>, "flow.study", 91>>,
    <<<<"q","u","i","z">>, "quiz.kernel", 83>>,
    <<<<"s","t","u","d","y"," ","q","u","i","z">>, "feedback.kernel", 76>> }

Queries ==
  { <<"S","T","U","D","Y">>,
    <<"u","d">>,
    <<"Q","u","i","z">>,
    <<"y"," ","q">>,
    <<"Z">>,
    <<>> }

\* memory.anchor(goal, module, score, justification)
MemAnchor ==
  \E inp \in MemInputs, head \in Heads, io \in IoOutcomes :
    /\ state = "Idle"
    /\ Len(records) < MaxAnchors
    /\ op' = "anchor"
    /\ out' = <<>>
    /\ Anchor(inp[1], inp[2], inp[3], <<>>, head, io)
    /\ IF io = "ok"
       THEN UNCHANGED <<state, raised>>
       ELSE state' = "Crashed" /\ raised' = "OSError"
    /\ query' = <<>>
    /\ UNCHANGED <<lastCmd>>

\* memory.recall(query)
MemRecall ==
  \E q \in Queries :
    /\ state = "Idle"
    /\ op' = "recall"
    /\ query' = q
    /\ out' = RecallMatches(records, q)
    /\ UNCHANGED <<records, files, state, raised, lastCmd, now, serial>>

\* memory.map()
MemMap ==
  /\ state = "Idle"
  /\ op' = "map"
  /\ out' = MapFlows(records)
  /\ query' = <<>>
    /\ UNCHANGED <<records, files, state, raised, lastCmd, now, serial>>

MemNext == MemAnchor \/ MemRecall \/ MemMap

MemSpec == Init /\ [][MemNext]_vars

\* ------------------------------------------------------- reading a file back

RECURSIVE JsonUnescape(_)
JsonUnescape(s) ==
  IF s = <<>> THEN <<>>
  ELSE IF Head(s) = "\\" /\ Len(s) >= 2 THEN <<s[2]>> \o JsonUnescape(SubSeq(s, 3, Len(s)))
  ELSE <<Head(s)>> \o JsonUnescape(Tail(s))

JsonUnstring(v) == JsonUnescape(SubSeq(v, 2, Len(v) - 1))

DigitValue(c) == CHOOSE d \in 0..9 : Digits[d + 1] = c

\* the float a number text stands for, in hundredths
ParseFloat(v) ==
  100 * DigitValue(v[1]) + 10 * DigitValue(v[3]) + (IF Len(v) >= 4 THEN DigitValue(v[4]) ELSE 0)

\* json.load of a file export_docs wrote
JsonLoad(doc) ==
  [id |-> JsonUnstring(doc[1][2]),
   timestamp |-> JsonUnstring(doc[2][2]),
   goal |-> JsonUnstring(doc[3][2]),
   module |-> JsonUnstring(doc[4][2])[1],
   score |-> ParseFloat(doc[5][2]),
   justification |-> JsonUnstring(doc[6][2])]

\* ------------------------------------------------------------------ claims

\* C1: the record list is append-only.  Every step of the command loop leaves the
\* list as it was or adds exactly one record at its end, the records before it
\* unchanged and in the same order; only the default pipeline (through
\* Memory.anchor) adds one.
C1_AppendOnly ==
  [][ \/ records' = records
      \/ /\ Len(records') = Len(records) + 1
         /\ SubSeq(records', 1, Len(records)) = records
         /\ op' = "launch" ]_vars

C1_Witness == Len(records) >= 3 /\ op = "launch" /\ state = "Idle"

\* g holds q as a substring when letter case is ignored
HoldsIgnoringCase(g, q) ==
  \E off \in 0..(Len(g) - Len(q)) :
    \A j \in 1..Len(q) : LowerChar(g[off + j]) = LowerChar(q[j])

\* C2: after recall(query) the result holds exactly the records whose goal holds
\* the query as a substring, letter case ignored, in the order of the store, and
\* nothing else; it is empty when none matches.
C2_RecallExact ==
  op = "recall" =>
    LET hits == {i \in 1..Len(records) : HoldsIgnoringCase(records[i].goal, query)}
    IN  /\ Len(out) = Cardinality(hits)
        /\ \A i \in hits : out[Cardinality({k \in hits : k <= i})] = records[i]

C2_Witness ==
  /\ op = "recall"
  /\ query = <<"S","T","U","D","Y">>
  /\ Len(records) = 3
  /\ Len(out) = 2
  /\ out[1] = records[1]
  /\ out[2] = records[3]

\* C3: after map, the rows shown are those of the last min(5, k) records of a
\* store of k records, oldest first; never more than 5, and all when k < 5.
C3_MapLastFive ==
  op = "map" =>
    LET k == Len(records)
        m == IF k < 5 THEN k ELSE 5
    IN  /\ Len(out) = m
        /\ \A i \in 1..m : out[i] = MapRow(records[k - m + i])

C3_Witness == op = "map" /\ Len(records) > 5 /\ Len(out) = 5

\* C4: a line that starts with dev and holds no separator is a usage error: no
\* record is created, the default pipeline does not run, the router stays Idle.
C4_DevWithoutSeparator ==
  [][ (state = "Idle" /\ StartsWith(StrLower(lastCmd'), CmdDev) /\ ~HasChar(lastCmd', "|"))
      => (records' = records /\ op' # "launch" /\ state' = "Idle") ]_vars

\* C5: every run of the default pipeline adds exactly one record; its module is
\* the primary module when the matched score is >= 0.9 and the backup module
\* otherwise; with the static table that is flow.study with score 0.91.
C5_LaunchAnchorsOne ==
  [][ op' = "launch" =>
        LET match == LlmMatch("tutoring")
            r == records'[Len(records')]
        IN  /\ Len(records') = Len(records) + 1
            /\ r.module = (IF match.score >= 90 THEN match.primary_module
                           ELSE match.backup_module)
            /\ r.module = "flow.study"
            /\ r.score = 91 ]_vars

C5_Witness ==
  /\ op = "launch"
  /\ Len(records) >= 1
  /\ Last(records).module = "flow.study"
  /\ Last(records).score = 91

\* C6: a failed write of the record file does not end the process: after a
\* default-pipeline command whose export raised OSError the router is Idle.
C6_WriteFailureStaysIdle == (op = "launch" /\ raised = "OSError") => state = "Idle"

\* C7 as claimed: every line that is not exit, does not start with "recall ", is
\* not map and is not a dev line with a separator runs the default pipeline and
\* adds one record.
C7_OtherLinesLaunch ==
  [][ ( /\ state = "Idle"
        /\ StrLower(lastCmd') # CmdExit
        /\ ~StartsWith(StrLower(lastCmd'), CmdRecall)
        /\ StrLower(lastCmd') # CmdMap
        /\ ~(StartsWith(StrLower(lastCmd'), CmdDev) /\ HasChar(lastCmd', "|")) )
      => (op' = "launch" /\ Len(records') = Len(records) + 1) ]_vars

\* C7 as amended: every line that is not exit, does not start with "recall ", is
\* not map, is not chaos, is not plugin and is not a dev line with a separator
\* runs the default pipeline and adds one record.
C7_OtherLinesLaunchAmended ==
  [][ ( /\ state = "Idle"
        /\ StrLower(lastCmd') # CmdExit
        /\ ~StartsWith(StrLower(lastCmd'), CmdRecall)
        /\ StrLower(lastCmd') # CmdMap
        /\ StrLower(lastCmd') # CmdChaos
        /\ StrLower(lastCmd') # CmdPlugin
        /\ ~(StartsWith(StrLower(lastCmd'), CmdDev) /\ HasChar(lastCmd', "|")) )
      => (op' = "launch" /\ Len(records') = Len(records) + 1) ]_vars

C7_Witness ==
  /\ op = "launch"
  /\ lastCmd = <<"r","e","c","a","l","l">>
  /\ Len(records) >= 1

\* C8: every line that starts with dev and holds at least one separator is
\* parsed into a module name and a patch, leaves the records as they are and
\* leaves the router Idle, however many separators it holds.
C8_DevAlwaysParses ==
  [][ (state = "Idle" /\ StartsWith(StrLower(lastCmd'), CmdDev) /\ HasChar(lastCmd', "|"))
      => (op' = "dev" /\ Len(out') = 2 /\ records' = records /\ state' = "Idle") ]_vars

\* C9: the router is Idle or Stopped; exit in any letter case takes it from Idle
\* to Stopped and touches neither the records nor the files; nothing is handled
\* once Stopped; no line other than exit takes the router out of Idle.
C9_OnlyExitLeavesIdle ==
  [][ /\ state' \in {"Idle", "Stopped"}
      /\ state # "Stopped"
      /\ (state = "Idle" /\ StrLower(lastCmd') = CmdExit)
           => (state' = "Stopped" /\ records' = records /\ files' = files)
      /\ (state = "Idle" /\ state' # "Idle") => StrLower(lastCmd') = CmdExit ]_vars

\* C10: when no write has failed, the directory holds one file for each record:
\* as many files as records, each record's file named from the prefix and the
\* first 8 characters of its id, and read back equal to the record.
C10_OneFilePerRecord ==
  raised # "OSError" =>
    /\ Cardinality(DOMAIN files) = Len(records)
    /\ \A i \in 1..Len(records) :
         /\ FileName(records[i]) = <<"andromeda_log_">> \o SubSeq(records[i].id, 1, 8) \o <<".json">>
         /\ FileName(records[i]) \in DOMAIN files
         /\ JsonLoad(files[FileName(records[i])]) = records[i]

====
